---- MODULE Spec2Model ----
(***************************************************************************)
(* Hybrid Access Layer of labcode-log-server: storage-mode inference       *)
(* (services/hal/__init__.py, HybridAccessLayer._do_infer_storage_mode)    *)
(* and the merged content listing (HybridAccessLayer.list_contents) over   *)
(* the object store, the local file system and the operation logs kept in  *)
(* the relational store.                                                   *)
(*                                                                         *)
(* Strings that the code takes apart (object keys, storage addresses,      *)
(* listing prefixes, virtual paths) are records                            *)
(*     [segs |-> <<name, ...>>, dir |-> trailing "/" present]              *)
(* so "runs/1/" is [segs |-> <<"runs","1">>, dir |-> TRUE] and "" is       *)
(* [segs |-> <<>>, dir |-> FALSE].  The names used are pairwise            *)
(* prefix-free, so a string prefix test on the last, partial name of a     *)
(* prefix is an equality test on that name.                                *)
(***************************************************************************)
EXTENDS Integers, Sequences, FiniteSets, TLC

\* ---------------------------------------------------------------- bounds
MaxRun == 2
MaxOp == 2
MaxSession == 2

Runs == 1..MaxRun
Ops == 1..MaxOp
Sessions == 1..MaxSession

\* Python None / SQL NULL
NULL == "NULL"

\* Optional[...]: None, or the value
None == <<>>

Some(v) == <<v>>

\* ------------------------------------------------------- strings and paths
Digits == <<"0", "1", "2", "3", "4", "5", "6", "7", "8", "9">>

\* str(i) / f"{i}" for a one-digit id
Str(i) == Digits[i + 1]

\* int(s) succeeds (no ValueError)
IsInt(s) == \E i \in 0..9 : Digits[i + 1] = s

\* int(s) when it succeeds
ParseInt(s) == CHOOSE i \in 0..9 : Digits[i + 1] = s

Path(segs, dir) == [segs |-> segs, dir |-> dir]

EmptyStr == Path(<<>>, FALSE)

\* f"{a}{p}" for a storage address a ("" or ending in "/") and a prefix or path p
Concat(a, p) == IF p.segs = <<>> THEN a ELSE Path(a.segs \o p.segs, p.dir)

\* f"runs/{run.id}/"
RunsDir(r) == Path(<<"runs", Str(r)>>, TRUE)

ArchiveDir == Path(<<"archive">>, TRUE)

\* key.startswith(p), for an object key ("a/b" or, a folder marker, "a/b/") and a
\* prefix p: "" or ".../" (dir) or ".../nam" (partial last name)
StartsWith(key, p) ==
    /\ Len(key.segs) >= Len(p.segs)
    /\ SubSeq(key.segs, 1, Len(p.segs)) = p.segs
    /\ (Len(key.segs) = Len(p.segs) /\ p.dir) => key.dir

\* the directory part of a prefix: everything up to its last "/"
DirPart(p) == IF p.segs = <<>> \/ p.dir THEN p.segs ELSE SubSeq(p.segs, 1, Len(p.segs) - 1)

\* ------------------------------------------------------------ key universe
FileKey(segs) == Path(segs, FALSE)

\* objects a run may hold under runs/<id>/: one directly under the prefix and,
\* for run 1, one that lies only in a sub-directory of it
DirectKey(r) == FileKey(<<"runs", Str(r), "protocol.yaml">>)

NestedKey(r) == FileKey(<<"runs", Str(r), "processes", "data.csv">>)

ArchiveKey == FileKey(<<"archive", "protocol.yaml">>)

\* a file stored where the virtual path of operation o's log points
OpLogKey(r, o) == FileKey(<<"runs", Str(r), "operations", Str(o), "log.txt">>)

RECURSIVE RunKeySeq(_)
RunKeySeq(n) ==
    IF n = 0 THEN <<>>
    ELSE RunKeySeq(n - 1)
         \o (IF n = 1 THEN <<OpLogKey(n, 1), NestedKey(n)>> ELSE <<>>)
         \o <<DirectKey(n)>>

\* every key of the universe, in the lexicographic order the object store lists in
KeyOrder == <<ArchiveKey>> \o RunKeySeq(MaxRun)

Range(seq) == {seq[i] : i \in 1..Len(seq)}

\* the keys the inference specifications draw the bucket from
InferKeys == Range(KeyOrder) \ {OpLogKey(1, 1)}

\* the keys the listing specification draws the bucket and the local tree from
ListKeys == {ArchiveKey, OpLogKey(1, 1), DirectKey(1)}

\* --------------------------------------------------------------- the state
VARIABLES
    storage_mode,     \* Run.storage_mode as committed in the relational store
    storage_address,  \* Run.storage_address
    run_id,           \* Process.run_id of the process each operation belongs to
    log,              \* Operation.log: NULL, "" or a text
    s3,               \* the keys of the bucket
    local_fs,         \* the files below the local backend's base_path
    zero_size,        \* the stored files of zero bytes, as <<backend, key>>
    deleted_at,       \* Run.deleted_at is set (the run is soft-deleted)
    down,             \* the sources whose calls raise while the request runs
    max_keys,         \* the entries the object store puts on one page of a listing
    backends,         \* the names BackendRegistry._backends holds a class for
    processes,        \* the ids of the rows of table processes
    ports,            \* the rows of table ports, as <<id, process_id>>
    operations,       \* the rows of table operations, as <<id, process_id>>
    pc,               \* where each request (one session each) stands
    req,              \* the request's locals: loaded Run objects, probe results
    first_infer,      \* history: the last finished infer call on a then-uncached run
    listing,          \* the last answer of list_contents
    answer            \* the last answer of load_content, get_download_url, get_storage_info

vars == <<storage_mode, storage_address, run_id, log, s3, local_fs, zero_size, deleted_at, down,
          max_keys, backends, processes, ports, operations, pc, req, first_infer, listing,
          answer>>

\* BackendRegistry as populated at import: S3StorageBackend, LocalStorageBackend
Registered == {"s3", "local"}

\* what the column holds: the enum's values, the string the resolver writes for
\* "both", or NULL
ModeStrings == {"s3", "local", "unknown", "hybrid"}

LogValues == {NULL, "", "text"}

\* the three sources the layer reads: object store, relational store, local tree
Sources == {"s3", "db", "local"}

\* the call of the backend raises: the object store or the local tree is down
BackendRaises(backend) == backend \in down

\* a query of the relational store about operations raises
DbRaises == "db" \in down

\* ------------------------------------------------------------ object store
RECURSIVE Uniq(_)
Uniq(seq) ==
    IF seq = <<>> THEN <<>>
    ELSE LET front == Uniq(SubSeq(seq, 1, Len(seq) - 1))
             last == seq[Len(seq)]
         IN IF last \in Range(front) THEN front ELSE Append(front, last)

RECURSIVE MapCommonPrefix(_, _)
MapCommonPrefix(seq, d) ==
    IF seq = <<>> THEN <<>>
    ELSE <<Path(SubSeq(seq[1].segs, 1, d + 1), TRUE)>> \o MapCommonPrefix(Tail(seq), d)

\* the complete answer of list_objects_v2(Prefix=prefix, Delimiter="/") over the
\* keys `store`: the keys with no "/" after the prefix, and one common prefix
\* per first "/" after it
ListObjectsV2(store, prefix) ==
    LET d == Len(DirPart(prefix))
        Match(k) == k \in store /\ StartsWith(k, prefix)
        Rolled(k) == Len(k.segs) > d + 1 \/ (Len(k.segs) = d + 1 /\ k.dir)
        IsContent(k) == Match(k) /\ ~Rolled(k)
        IsRolled(k) == Match(k) /\ Rolled(k)
    IN [contents |-> SelectSeq(KeyOrder, IsContent),
        common_prefixes |-> Uniq(MapCommonPrefix(SelectSeq(KeyOrder, IsRolled), d))]

\* a page size no listing of the key universe exceeds
WholeBucket == Len(KeyOrder)

RECURSIVE MapEntry(_, _)
MapEntry(seq, d) ==
    IF seq = <<>> THEN <<>>
    ELSE <<IF Len(seq[1].segs) > d + 1 \/ (Len(seq[1].segs) = d + 1 /\ seq[1].dir)
           THEN [cp |-> TRUE, key |-> Path(SubSeq(seq[1].segs, 1, d + 1), TRUE)]
           ELSE [cp |-> FALSE, key |-> seq[1]]>> \o MapEntry(Tail(seq), d)

\* what list_objects_v2 enumerates, in key order: with a delimiter the keys and
\* the common prefixes, each once; without one the keys
ListEntries(store, prefix, delimited) ==
    LET Match(k) == k \in store /\ StartsWith(k, prefix)
        matched == SelectSeq(KeyOrder, Match)
    IN IF delimited THEN Uniq(MapEntry(matched, Len(DirPart(prefix))))
       ELSE [i \in 1..Len(matched) |-> [cp |-> FALSE, key |-> matched[i]]]

\* one response of list_objects_v2: the max_keys entries after the continuation
\* token (0 without one), IsTruncated, and the token of the next page
ListObjectsV2Page(store, prefix, delimited, token) ==
    LET all == ListEntries(store, prefix, delimited)
        last == IF token + max_keys < Len(all) THEN token + max_keys ELSE Len(all)
        page == SubSeq(all, token + 1, last)
        IsCp(x) == x.cp
        IsKey(x) == ~x.cp
        Keys(seq) == [i \in 1..Len(seq) |-> seq[i].key]
    IN [Contents |-> Keys(SelectSeq(page, IsKey)),
        CommonPrefixes |-> Keys(SelectSeq(page, IsCp)),
        IsTruncated |-> last < Len(all),
        NextContinuationToken |-> last]

\* S3StorageBackend.list_objects_with_dirs: one list_objects_v2 request, its
\* Contents and CommonPrefixes returned as they come
S3ListObjectsWithDirs(prefix) ==
    LET response == ListObjectsV2Page(s3, prefix, TRUE, 0)
    IN [contents |-> response.Contents, common_prefixes |-> response.CommonPrefixes]

\* S3StorageBackend.list_objects: list_objects_v2 without delimiter, repeated
\* with the continuation token while IsTruncated; the prefix itself and the
\* keys ending in "/" are left out
RECURSIVE S3ListObjectsFrom(_, _)
S3ListObjectsFrom(prefix, token) ==
    LET response == ListObjectsV2Page(s3, prefix, FALSE, token)
        Kept(k) == k # prefix /\ ~k.dir
    IN SelectSeq(response.Contents, Kept)
       \o (IF response.IsTruncated
           THEN S3ListObjectsFrom(prefix, response.NextContinuationToken)
           ELSE <<>>)

S3ListObjects(prefix) == S3ListObjectsFrom(prefix, 0)

\* ------------------------------------------------------ local file system
\* LocalStorageBackend.list_objects_with_dirs: base_path / prefix is a directory
\* path whatever the prefix ends in; its files, and its sub-directories with "/"
LocalListObjectsWithDirs(prefix) ==
    LET d == Len(prefix.segs)
        Below(k) == /\ k \in local_fs
                    /\ Len(k.segs) > d
                    /\ SubSeq(k.segs, 1, d) = prefix.segs
        IsFile(k) == Below(k) /\ Len(k.segs) = d + 1
        IsInSubdir(k) == Below(k) /\ Len(k.segs) > d + 1
    IN [contents |-> SelectSeq(KeyOrder, IsFile),
        common_prefixes |-> Uniq(MapCommonPrefix(SelectSeq(KeyOrder, IsInSubdir), d))]

\* ------------------------------------------------------- relational probes
\* query(Operation).join(Process).filter(Process.run_id == r, Operation.log
\* is not NULL, Operation.log != '').first() is not None
HasDbLogs(r) == \E o \in Ops : run_id[o] = r /\ log[o] # NULL /\ log[o] # ""

\* ----------------------------------------------------- single-run inference
\* run.storage_address or f"runs/{run.id}/"
AddressOrDefault(r) == IF storage_address[r] = EmptyStr THEN RunsDir(r) ELSE storage_address[r]

\* bool(result.get('contents', [])) of the listing at the run's address
HasS3Files(r) ==
    /\ ~BackendRaises("s3")
    /\ S3ListObjectsWithDirs(AddressOrDefault(r)).contents # <<>>

\* HybridAccessLayer._do_infer_storage_mode
do_infer_storage_mode(r) ==
    IF HasS3Files(r) THEN "s3"
    ELSE IF HasDbLogs(r) THEN "local"
    ELSE "unknown"

\* the relational queries _do_infer_storage_mode issues: none once S3 answered
do_infer_db_queries(r) == IF HasS3Files(r) THEN 0 ELSE 1

\* StorageInfo.is_hybrid as get_storage_info computes it
is_hybrid(r) == HasS3Files(r) /\ HasDbLogs(r)

\* inferred_mode of infer_storage_mode_for_run
inferred_mode(hybrid, mode) == IF hybrid THEN "hybrid" ELSE mode

\* a cache test that takes a stored "unknown" for not yet inferred
is_cached_known(mode) == mode \notin {NULL, "unknown"}

\* the cache test of infer_storage_mode_for_run: run.storage_mode is not None
is_cached(mode) == mode # NULL

\* an assignment that stores the mode of _infer_storage_mode, not inferred_mode
persisted_mode_raw(inferred, mode) == mode

\* run.storage_mode = inferred_mode: the value the commit writes
persisted_mode(inferred, mode) == inferred

\* -------------------------------------------------------------- batch
\* a selection that also takes the runs stored as 'unknown' for uncached
uncached_runs_unknown(runs, snap) == {r \in runs : snap[r] \in {NULL, "unknown"}}

\* a selection that takes every run for uncached
uncached_runs_all(runs, snap) == runs

\* uncached_runs = [r for r in runs if r.storage_mode is None]
uncached_runs(runs, snap) == {r \in runs : snap[r] = NULL}

\* _batch_check_s3_presence: the run ids among the common prefixes of "runs/";
\* `except Exception: return set()` when the listing fails
batch_check_s3_presence(run_ids) ==
    LET cps == Range(S3ListObjectsWithDirs(Path(<<"runs">>, TRUE)).common_prefixes)
    IN IF BackendRaises("s3") THEN {}
       ELSE {r \in run_ids : \E cp \in cps :
                /\ Len(cp.segs) >= 2
                /\ IsInt(cp.segs[2])
                /\ ParseInt(cp.segs[2]) = r}

\* _batch_check_db_logs
batch_check_db_logs(run_ids) == {r \in run_ids : HasDbLogs(r)}

\* an assignment that lets the object store decide alone
batch_mode_s3_first(has_s3, has_db) ==
    IF has_s3 THEN "s3"
    ELSE IF has_db THEN "local"
    ELSE "unknown"

\* the value batch_infer_storage_modes assigns to one uncached run
batch_mode(has_s3, has_db) ==
    IF has_s3 /\ has_db THEN "hybrid"
    ELSE IF has_s3 THEN "s3"
    ELSE IF has_db THEN "local"
    ELSE "unknown"

\* ------------------------------------------------------------- requests
NoCall == [ret |-> NULL, after |-> NULL]

IdleReq ==
    [kind |-> "none", run |-> 0, runs |-> {}, snap |-> [r \in Runs |-> NULL],
     mode |-> NULL, inferred |-> NULL, s3_ids |-> {}, db_ids |-> {},
     s3_calls |-> 0, db_queries |-> 0, commits |-> 0, ret |-> NULL]

NoAnswer == [op |-> "none"]

NoListing == [run |-> 0, prefix |-> EmptyStr, mode |-> NULL, items |-> <<>>, raises |-> "none"]

\* the Run objects a session loads keep the storage_mode read at load time
Snapshot(runs) == [r \in Runs |-> IF r \in runs THEN storage_mode[r] ELSE NULL]

Unchanged_ext ==
    UNCHANGED <<storage_address, run_id, log, s3, local_fs, zero_size, deleted_at, down, max_keys,
                backends, processes, ports, operations>>

\* runs.read: the route loads the run, then hands it to infer_storage_mode_for_run
ReadRun(s, r) ==
    /\ pc[s] = "idle"
    /\ pc' = [pc EXCEPT ![s] = "loaded"]
    /\ req' = [req EXCEPT ![s] = [IdleReq EXCEPT !.kind = "infer", !.run = r,
                                                 !.runs = {r}, !.snap = Snapshot({r})]]
    /\ UNCHANGED <<storage_mode, first_infer, listing, answer>>
    /\ Unchanged_ext

\* infer_storage_mode_for_run, cache hit: return run.storage_mode
InferCacheHit(s) ==
    /\ pc[s] = "loaded" /\ req[s].kind = "infer"
    /\ is_cached(req[s].snap[req[s].run])
    /\ pc' = [pc EXCEPT ![s] = "done"]
    /\ req' = [req EXCEPT ![s].ret = req[s].snap[req[s].run]]
    /\ UNCHANGED <<storage_mode, first_infer, listing, answer>>
    /\ Unchanged_ext

\* cache miss, first half of hal.get_storage_info(run.id): _get_run, then
\* _infer_storage_mode -> _do_infer_storage_mode, kept in _inferred_mode_cache
InferProbe(s) ==
    /\ pc[s] = "loaded" /\ req[s].kind = "infer"
    /\ ~is_cached(req[s].snap[req[s].run])
    /\ pc' = [pc EXCEPT ![s] = "inferred"]
    /\ req' = [req EXCEPT ![s].mode = do_infer_storage_mode(req[s].run),
                          ![s].s3_calls = @ + 1,
                          ![s].db_queries = @ + 1 + do_infer_db_queries(req[s].run)]
    /\ UNCHANGED <<storage_mode, first_infer, listing, answer>>
    /\ Unchanged_ext

\* second half of get_storage_info: the hybrid detection (one listing, one
\* query); then inferred_mode, with _infer_storage_mode answered from the cache
InferHybridProbe(s) ==
    /\ pc[s] = "inferred"
    /\ pc' = [pc EXCEPT ![s] = "probed"]
    /\ req' = [req EXCEPT ![s].inferred = inferred_mode(is_hybrid(req[s].run), req[s].mode),
                          ![s].s3_calls = @ + 1,
                          ![s].db_queries = @ + 1]
    /\ UNCHANGED <<storage_mode, first_infer, listing, answer>>
    /\ Unchanged_ext

\* if persist: run.storage_mode = inferred_mode; db_session.commit(); return
InferPersist(s) ==
    /\ pc[s] = "probed"
    /\ pc' = [pc EXCEPT ![s] = "done"]
    /\ storage_mode' = [storage_mode EXCEPT ![req[s].run] =
                            persisted_mode(req[s].inferred, req[s].mode)]
    /\ req' = [req EXCEPT ![s].ret = req[s].inferred, ![s].commits = @ + 1]
    /\ UNCHANGED <<first_infer, listing, answer>>
    /\ Unchanged_ext

\* users.read_runs: the route loads the user's runs, then hands them to
\* batch_infer_storage_modes
ReadRuns(s, runs) ==
    /\ pc[s] = "idle"
    /\ pc' = [pc EXCEPT ![s] = "loaded"]
    /\ req' = [req EXCEPT ![s] = [IdleReq EXCEPT !.kind = "batch", !.runs = runs,
                                                 !.snap = Snapshot(runs)]]
    /\ UNCHANGED <<storage_mode, first_infer, listing, answer>>
    /\ Unchanged_ext

\* batch_infer_storage_modes: if not uncached_runs: return
BatchSkip(s) ==
    /\ pc[s] = "loaded" /\ req[s].kind = "batch"
    /\ uncached_runs(req[s].runs, req[s].snap) = {}
    /\ pc' = [pc EXCEPT ![s] = "done"]
    /\ UNCHANGED <<req, storage_mode, first_infer, listing, answer>>
    /\ Unchanged_ext

\* the two bulk probes of batch_infer_storage_modes
BatchProbe(s) ==
    /\ pc[s] = "loaded" /\ req[s].kind = "batch"
    /\ uncached_runs(req[s].runs, req[s].snap) # {}
    /\ pc' = [pc EXCEPT ![s] = "checked"]
    /\ LET run_ids == uncached_runs(req[s].runs, req[s].snap)
       IN req' = [req EXCEPT ![s].s3_ids = batch_check_s3_presence(run_ids),
                             ![s].db_ids = batch_check_db_logs(run_ids),
                             ![s].s3_calls = @ + 1,
                             ![s].db_queries = @ + 1]
    /\ UNCHANGED <<storage_mode, first_infer, listing, answer>>
    /\ Unchanged_ext

\* the assignment loop and the one commit of batch_infer_storage_modes
BatchCommit(s) ==
    /\ pc[s] = "checked"
    /\ pc' = [pc EXCEPT ![s] = "done"]
    /\ storage_mode' =
           [r \in Runs |->
               IF r \in uncached_runs(req[s].runs, req[s].snap)
               THEN batch_mode(r \in req[s].s3_ids, r \in req[s].db_ids)
               ELSE storage_mode[r]]
    /\ req' = [req EXCEPT ![s].commits = @ + 1]
    /\ UNCHANGED <<first_infer, listing, answer>>
    /\ Unchanged_ext

\* the response is sent and the session closed
Return(s) ==
    /\ pc[s] = "done"
    /\ pc' = [pc EXCEPT ![s] = "idle"]
    /\ req' = [req EXCEPT ![s] = IdleReq]
    /\ first_infer' =
           IF req[s].kind = "infer" /\ ~is_cached(req[s].snap[req[s].run])
           THEN [first_infer EXCEPT ![req[s].run] =
                    [ret |-> req[s].ret, after |-> storage_mode[req[s].run]]]
           ELSE first_infer
    /\ UNCHANGED <<storage_mode, listing, answer>>
    /\ Unchanged_ext

\* ------------------------------------------------- the producing system
\* the producing system uploads or removes an object
PutObject(k) ==
    /\ k \notin s3
    /\ s3' = s3 \cup {k}
    /\ UNCHANGED <<storage_mode, storage_address, run_id, log, local_fs, zero_size, deleted_at, down,
                   max_keys, backends, processes, ports, operations, pc, req, first_infer,
                   listing, answer>>

DeleteObject(k) ==
    /\ k \in s3
    /\ s3' = s3 \ {k}
    /\ UNCHANGED <<storage_mode, storage_address, run_id, log, local_fs, zero_size, deleted_at, down,
                   max_keys, backends, processes, ports, operations, pc, req, first_infer,
                   listing, answer>>

\* an operation's log is written (operations.patch, attribute "log")
WriteLog(o, v) ==
    /\ log[o] # v
    /\ log' = [log EXCEPT ![o] = v]
    /\ UNCHANGED <<storage_mode, storage_address, run_id, s3, local_fs, zero_size, deleted_at, down,
                   max_keys, backends, processes, ports, operations, pc, req, first_infer,
                   listing, answer>>

\* ----------------------------------------------------- specifications
\* a run's address: the default directory, nothing, or a directory elsewhere
AddressChoices(r) == IF r = 1 THEN {RunsDir(r), EmptyStr, ArchiveDir} ELSE {RunsDir(r)}

\* operation o belongs to a process of run OwnerOf(o)
OwnerOf(o) == ((o - 1) % MaxRun) + 1

\* the state a request finds: no run inferred yet, any contents of the stores
Init ==
    /\ storage_mode = [r \in Runs |-> NULL]
    /\ storage_address \in [Runs -> UNION {AddressChoices(r) : r \in Runs}]
    /\ \A r \in Runs : storage_address[r] \in AddressChoices(r)
    /\ run_id = [o \in Ops |-> OwnerOf(o)]
    /\ log \in [Ops -> LogValues]
    /\ s3 \in SUBSET InferKeys
    /\ local_fs = {}
    /\ zero_size = {}
    /\ deleted_at = [r \in Runs |-> FALSE]
    /\ down = {}
    /\ max_keys = WholeBucket
    /\ backends = Registered
    /\ processes = {}
    /\ ports = {}
    /\ operations = {}
    /\ pc = [s \in Sessions |-> "idle"]
    /\ req = [s \in Sessions |-> IdleReq]
    /\ first_infer = [r \in Runs |-> NoCall]
    /\ listing = NoListing
    /\ answer = NoAnswer

\* requests served one after the other
Serial == {1}

Request(s) ==
    \/ \E r \in Runs : ReadRun(s, r)
    \/ InferCacheHit(s)
    \/ InferProbe(s)
    \/ InferHybridProbe(s)
    \/ InferPersist(s)
    \/ \E runs \in SUBSET Runs : ReadRuns(s, runs)
    \/ BatchSkip(s)
    \/ BatchProbe(s)
    \/ BatchCommit(s)
    \/ Return(s)

\* the external state is fixed: requests only
Next == \E s \in Serial : Request(s)

Spec == Init /\ [][Next]_vars

\* freshly created runs: nothing stored yet, the producing system at work
InitEmpty ==
    /\ Init
    /\ \A r \in Runs : storage_address[r] = RunsDir(r)
    /\ log = [o \in Ops |-> NULL]
    /\ s3 = {}

Producer ==
    \/ \E k \in InferKeys : PutObject(k)
    \/ \E k \in InferKeys : DeleteObject(k)
    \/ \E o \in Ops, v \in LogValues : WriteLog(o, v)

NextProducer ==
    \/ \E s \in Serial : Request(s)
    \/ Producer

SpecProducer == InitEmpty /\ [][NextProducer]_vars

\* requests of several sessions interleaved, the external state fixed
InitRace ==
    /\ Init
    /\ \A r \in Runs : storage_address[r] = RunsDir(r)

NextRace == \E s \in Sessions : Request(s)

SpecRace == InitRace /\ [][NextRace]_vars

\* ----------------------------------------------------------- listing
\* StorageMode.from_string: None and every string that names no member are UNKNOWN
from_string(value) == IF value \in {"s3", "local", "unknown"} THEN value ELSE "unknown"

\* mode.lower(), for the names of the model
lower(name) == IF name = "S3" THEN "s3" ELSE name

\* BackendRegistry.is_registered
is_registered(mode) == lower(mode) \in backends

\* BackendRegistry.get: the class registered under the lowered name, and
\* ValueError for a name that is not registered
registry_get(mode) ==
    IF lower(mode) \in backends
    THEN [backend |-> Some(lower(mode)), raises |-> "none"]
    ELSE [backend |-> None, raises |-> "ValueError"]

\* a lookup that asks the registry and has no fallback
get_backend_strict(mode_str) == IF is_registered(mode_str) THEN lower(mode_str) ELSE mode_str

\* HybridAccessLayer._get_backend: the registered backend, else the S3 one
get_backend(mode_str) == IF is_registered(mode_str) THEN lower(mode_str) ELSE "s3"

\* the exception that leaves _get_backend: that of BackendRegistry.get('s3')
\* in the fallback
get_backend_raises(mode_str) ==
    IF is_registered(mode_str) THEN "none" ELSE registry_get("s3").raises

\* the backend's list_objects_with_dirs
BackendList(backend, prefix) ==
    IF backend = "s3" THEN S3ListObjectsWithDirs(prefix) ELSE LocalListObjectsWithDirs(prefix)

\* ContentItem, without size, last_modified and content_type
ContentItem(name, path, type, source, backend) ==
    [name |-> name, path |-> path, type |-> type, source |-> source, backend |-> backend]

\* key[len(addr):] if key.startswith(addr) else key
RelativePath(key, addr) ==
    IF StartsWith(key, addr)
    THEN Path(SubSeq(key.segs, Len(addr.segs) + 1, Len(key.segs)), key.dir)
    ELSE key

\* the last name of a path: split('/')[-1], after rstrip('/') for a directory
LastName(path) == path.segs[Len(path.segs)]

RECURSIVE FileItems(_, _, _)
\* the loop over result['contents']: folder markers and the prefix itself skipped
FileItems(keys, addr, backend_name) ==
    IF keys = <<>> THEN <<>>
    ELSE LET rel == RelativePath(keys[1], addr)
             rest == FileItems(Tail(keys), addr, backend_name)
         IN IF rel.segs = <<>> \/ rel.dir THEN rest
            ELSE <<ContentItem(LastName(rel), rel, "file", "file", backend_name)>> \o rest

RECURSIVE DirItems(_, _, _)
\* the loop over result['common_prefixes']
DirItems(prefixes, addr, backend_name) ==
    IF prefixes = <<>> THEN <<>>
    ELSE LET rel == RelativePath(prefixes[1], addr)
             rest == DirItems(Tail(prefixes), addr, backend_name)
         IN IF rel.segs = <<>> THEN rest
            ELSE <<ContentItem(LastName(rel), rel, "directory", "file", backend_name)>> \o rest

\* the conversion shared by _list_file_contents, _try_list_from_s3 and
\* _try_list_from_local: backend `backend` listed at address + prefix
ListedItems(r, prefix, backend, backend_name) ==
    LET result == BackendList(backend, Concat(storage_address[r], prefix))
    IN FileItems(result.contents, storage_address[r], backend_name)
       \o DirItems(result.common_prefixes, storage_address[r], backend_name)

\* HybridAccessLayer._list_file_contents: `except Exception: return []` around
\* the backend's listing
list_file_contents(r, prefix) ==
    LET mode == from_string(storage_mode[r])
    IN IF BackendRaises(get_backend(mode)) THEN <<>>
       ELSE ListedItems(r, prefix, get_backend(mode), mode)

\* HybridAccessLayer._try_list_from_s3
try_list_from_s3(r, prefix) ==
    IF BackendRaises(get_backend("s3")) THEN <<>>
    ELSE ListedItems(r, prefix, get_backend("s3"), "s3")

\* [op.id for op in operations if op.log], the operations of the run, by id
RECURSIVE op_ids_with_log(_, _)
op_ids_with_log(r, n) ==
    IF n = 0 THEN <<>>
    ELSE op_ids_with_log(r, n - 1)
         \o (IF run_id[n] = r /\ log[n] \notin {NULL, ""} THEN <<n>> ELSE <<>>)

RECURSIVE OpDirItems(_, _)
OpDirItems(ids, backend) ==
    IF ids = <<>> THEN <<>>
    ELSE <<ContentItem(Str(ids[1]), Path(<<"operations", Str(ids[1])>>, TRUE),
                       "directory", "virtual", backend)>> \o OpDirItems(Tail(ids), backend)

\* a directory listing that answers at every prefix under operations/
list_virtual_directories_under(r, prefix, backend) ==
    LET ids == op_ids_with_log(r, MaxOp)
    IN (IF prefix = EmptyStr /\ ids # <<>>
        THEN <<ContentItem("operations", Path(<<"operations">>, TRUE), "directory", "virtual", backend)>>
        ELSE <<>>)
       \o (IF prefix.segs # <<>> /\ prefix.segs[1] = "operations"
           THEN OpDirItems(ids, backend)
           ELSE <<>>)

\* DBDataBackend.list_virtual_directories; `backend` is the tag the caller leaves
\* on the items (None, or "local" in _try_list_from_local)
list_virtual_directories(r, prefix, backend) ==
    LET ids == op_ids_with_log(r, MaxOp)
    IN (IF prefix = EmptyStr /\ ids # <<>>
        THEN <<ContentItem("operations", Path(<<"operations">>, TRUE), "directory", "virtual", backend)>>
        ELSE <<>>)
       \o (IF prefix.segs = <<"operations">>
           THEN OpDirItems(ids, backend)
           ELSE <<>>)

\* a file listing that does not ask which run the operation belongs to
list_operation_logs_any_run(r, prefix, backend) ==
    IF /\ Len(prefix.segs) = 2
       /\ prefix.segs[1] = "operations"
       /\ IsInt(prefix.segs[2])
    THEN LET target == ParseInt(prefix.segs[2])
         IN IF /\ target \in Ops
               /\ log[target] \notin {NULL, ""}
            THEN <<ContentItem("log.txt", Path(<<"operations", Str(target), "log.txt">>, FALSE),
                               "file", "db", backend)>>
            ELSE <<>>
    ELSE <<>>

\* DBDataBackend.list_operation_logs: only at operations/<id> or operations/<id>/
list_operation_logs(r, prefix, backend) ==
    IF /\ Len(prefix.segs) = 2
       /\ prefix.segs[1] = "operations"
       /\ IsInt(prefix.segs[2])
    THEN LET target == ParseInt(prefix.segs[2])
         IN IF /\ target \in Ops
               /\ log[target] \notin {NULL, ""}
               /\ run_id[target] = r
            THEN <<ContentItem("log.txt", Path(<<"operations", Str(target), "log.txt">>, FALSE),
                               "file", "db", backend)>>
            ELSE <<>>
    ELSE <<>>

\* a fallback with one try block around the adapter and the local tree
try_list_from_local_one_try(r, prefix) ==
    IF DbRaises \/ BackendRaises(get_backend("local")) THEN <<>>
    ELSE list_virtual_directories(r, prefix, "local")
         \o list_operation_logs(r, prefix, "local")
         \o ListedItems(r, prefix, get_backend("local"), "local")

\* HybridAccessLayer._try_list_from_local: one try block around the two adapter
\* queries, another around the listing of the local tree
try_list_from_local(r, prefix) ==
    (IF DbRaises THEN <<>>
     ELSE list_virtual_directories(r, prefix, "local")
          \o list_operation_logs(r, prefix, "local"))
    \o (IF BackendRaises(get_backend("local")) THEN <<>>
        ELSE ListedItems(r, prefix, get_backend("local"), "local"))

\* a merge that lets the last item of a path replace the earlier ones
RECURSIVE unique_items_last(_)
unique_items_last(items) ==
    IF items = <<>> THEN <<>>
    ELSE LET rest == unique_items_last(Tail(items))
         IN IF \E i \in 1..Len(rest) : rest[i].path = items[1].path
            THEN rest
            ELSE <<items[1]>> \o rest

\* the seen_paths loop of list_contents: the first item of each path is kept
RECURSIVE unique_items(_)
unique_items(items) ==
    IF items = <<>> THEN <<>>
    ELSE LET front == unique_items(SubSeq(items, 1, Len(items) - 1))
             last == items[Len(items)]
         IN IF \E i \in 1..Len(front) : front[i].path = last.path
            THEN front
            ELSE Append(front, last)

\* a S3 branch that also lists the synthetic directories
s3_mode_items_with_dirs(r, prefix) ==
    list_virtual_directories(r, prefix, NULL) \o list_file_contents(r, prefix)

\* the S3 branch of list_contents
s3_mode_items(r, prefix) == list_file_contents(r, prefix)

\* the LOCAL branch of list_contents
local_mode_items(r, prefix) ==
    list_virtual_directories(r, prefix, NULL)
    \o list_operation_logs(r, prefix, NULL)
    \o list_file_contents(r, prefix)

\* the UNKNOWN branch of list_contents
unknown_mode_items(r, prefix) == try_list_from_s3(r, prefix) \o try_list_from_local(r, prefix)

\* the items list_contents collects before the duplicates go
collected_items(r, prefix) ==
    LET mode == from_string(storage_mode[r])
    IN IF mode = "s3" THEN s3_mode_items(r, prefix)
       ELSE IF mode = "local" THEN local_mode_items(r, prefix)
       ELSE unknown_mode_items(r, prefix)

\* a lookup that does not filter on deleted_at
run_exists_any(r) == r \in Runs

\* HybridAccessLayer._get_run finds the run: Run.id == run_id, deleted_at IS NULL
run_exists(r) == r \in Runs /\ ~deleted_at[r]

\* the exception that leaves list_contents: ValueError of _get_run, or what the
\* adapter raised in the LOCAL branch, where nothing catches it
list_contents_raises(r, prefix) ==
    IF ~run_exists(r) THEN "ValueError"
    ELSE IF from_string(storage_mode[r]) = "local" /\ DbRaises THEN "Exception"
    ELSE "none"

\* HybridAccessLayer.list_contents
list_contents(r, prefix) ==
    IF list_contents_raises(r, prefix) # "none" THEN <<>>
    ELSE unique_items(collected_items(r, prefix))

\* the prefixes a client browses with
Prefixes ==
    {EmptyStr, Path(<<"operations">>, TRUE), Path(<<"operations">>, FALSE)}
    \cup {Path(<<"operations", Str(o)>>, dir) : o \in Ops, dir \in BOOLEAN}

\* GET /api/v2/storage/list/{run_id}
ListContents(r, prefix) ==
    /\ listing' = [run |-> r, prefix |-> prefix,
                   mode |-> IF run_exists(r) THEN from_string(storage_mode[r]) ELSE NULL,
                   items |-> list_contents(r, prefix),
                   raises |-> list_contents_raises(r, prefix)]
    /\ UNCHANGED <<storage_mode, pc, req, first_infer, answer>>
    /\ Unchanged_ext

\* any run record, any contents of bucket, local tree and logs
InitList ==
    /\ storage_mode \in [Runs -> ModeStrings \cup {NULL}]
    /\ \A r \in Runs : r # 1 => storage_mode[r] = NULL
    /\ storage_address \in [Runs -> UNION {AddressChoices(r) : r \in Runs}]
    /\ \A r \in Runs : storage_address[r] \in AddressChoices(r)
    /\ run_id = [o \in Ops |-> OwnerOf(o)]
    /\ log \in [Ops -> LogValues]
    /\ s3 \in SUBSET ListKeys
    /\ local_fs \in SUBSET ListKeys
    /\ zero_size = {}
    /\ deleted_at = [r \in Runs |-> FALSE]
    /\ down = {}
    /\ max_keys = WholeBucket
    /\ backends = Registered
    /\ processes = {}
    /\ ports = {}
    /\ operations = {}
    /\ pc = [s \in Sessions |-> "idle"]
    /\ req = [s \in Sessions |-> IdleReq]
    /\ first_infer = [r \in Runs |-> NoCall]
    /\ listing = NoListing
    /\ answer = NoAnswer

\* one listing request per behaviour
NextList == listing = NoListing /\ \E r \in Runs, prefix \in Prefixes : ListContents(r, prefix)

SpecList == InitList /\ [][NextList]_vars

\* ------------------------------------------------- content and info
\* the file names of the model for which name.endswith("log.txt") is true
EndWithLogTxt == {"log.txt", "error_log.txt"}

\* DBDataBackend.is_operation_log_path: "operations/" in path and
\* path.endswith("log.txt")
is_operation_log_path(path) ==
    /\ \E i \in 1..Len(path.segs) :
          path.segs[i] = "operations" /\ (i < Len(path.segs) \/ path.dir)
    /\ path.segs # <<>>
    /\ ~path.dir
    /\ path.segs[Len(path.segs)] \in EndWithLogTxt

\* DBDataBackend.extract_operation_id: re.search(r'operations/(\d+)/', path),
\* the leftmost match as an integer, None without a match
extract_operation_id(path) ==
    LET hits == {i \in 1..(Len(path.segs) - 1) :
                    /\ path.segs[i] = "operations"
                    /\ IsInt(path.segs[i + 1])
                    /\ (i + 1 < Len(path.segs) \/ path.dir)}
    IN IF hits = {} THEN None
       ELSE Some(ParseInt(path.segs[(CHOOSE i \in hits : \A j \in hits : i <= j) + 1]))

\* bytes, told apart by where they were read: the log of an operation, or the
\* object at a key of a backend
Content(source, op, key) == [source |-> source, op |-> op, key |-> key, empty |-> FALSE]

\* b"": what the backend reads from a file of zero bytes
EmptyBytes(source, key) == [source |-> source, op |-> 0, key |-> key, empty |-> TRUE]

\* `if content:` is false for None and for b""
Truthy(content) == content # None /\ ~content[1].empty

\* DBDataBackend.load_operation_log: the log of the operation, whatever its run
load_operation_log(operation_id) ==
    IF operation_id \in Ops /\ log[operation_id] \notin {NULL, ""}
    THEN Some(Content("db", operation_id, EmptyStr))
    ELSE None

\* the backend's load: the object at the key, None when there is none
BackendLoad(backend, key) ==
    IF key \in (IF backend = "s3" THEN s3 ELSE local_fs)
    THEN IF <<backend, key>> \in zero_size
         THEN Some(EmptyBytes(backend, key))
         ELSE Some(Content(backend, 0, key))
    ELSE None

\* file_backend.load(full_path) inside `try ... except Exception: return None`:
\* _try_load_from_s3, _try_load_from_local and the last step of load_content
try_load(backend, key) ==
    IF BackendRaises(backend) THEN None ELSE BackendLoad(backend, key)

\* load_content reaches load_operation_log: the path is an operation-log path
\* and carries an id that `if op_id:` lets through
reaches_operation_log(path) ==
    /\ is_operation_log_path(path)
    /\ extract_operation_id(path) # None
    /\ extract_operation_id(path)[1] # 0

\* the operation-log step of load_content: is_operation_log_path, then
\* extract_operation_id, `if op_id:`, then load_operation_log
load_log_content(path) ==
    IF reaches_operation_log(path)
    THEN load_operation_log(extract_operation_id(path)[1])
    ELSE None

\* the exception that leaves load_content: ValueError of _get_run, or what
\* load_operation_log raised, which no branch catches
load_content_raises(r, path) ==
    IF ~run_exists(r) THEN "ValueError"
    ELSE IF /\ from_string(storage_mode[r]) \in {"unknown", "local"}
            /\ reaches_operation_log(path)
            /\ DbRaises
         THEN "Exception"
    ELSE "none"

\* the sources load_content reads, in the order it reads them
load_content_reads(r, path) ==
    LET mode == from_string(storage_mode[r])
        full_path == Concat(storage_address[r], path)
        db == IF reaches_operation_log(path) THEN <<"db">> ELSE <<>>
    IN IF ~run_exists(r) THEN <<>>
       ELSE IF mode = "unknown"
       THEN IF db # <<>> /\ (DbRaises \/ Truthy(load_log_content(path))) THEN db
            ELSE IF Truthy(try_load(get_backend("s3"), full_path)) THEN db \o <<"s3">>
            ELSE db \o <<"s3", "local">>
       ELSE IF mode = "local"
       THEN IF db # <<>> /\ (DbRaises \/ Truthy(load_log_content(path))) THEN db
            ELSE db \o <<get_backend(mode)>>
       ELSE <<get_backend(mode)>>

\* HybridAccessLayer.load_content
load_content(r, path) ==
    LET mode == from_string(storage_mode[r])
        full_path == Concat(storage_address[r], path)
    IN IF load_content_raises(r, path) # "none" THEN None
       ELSE IF mode = "unknown"
       THEN IF Truthy(load_log_content(path)) THEN load_log_content(path)
            ELSE IF Truthy(try_load(get_backend("s3"), full_path))
                 THEN try_load(get_backend("s3"), full_path)
            ELSE IF Truthy(try_load(get_backend("local"), full_path))
                 THEN try_load(get_backend("local"), full_path)
            ELSE None
       ELSE IF mode = "local" /\ Truthy(load_log_content(path))
            THEN load_log_content(path)
       ELSE try_load(get_backend(mode), full_path)

\* a download reference: the route, and what it points at
Url(route, r, path, op_id, key) ==
    [route |-> route, run |-> r, path |-> path, op_id |-> op_id, key |-> key]

\* the backend's generate_presigned_url: a URL of the key, None from the local one
PresignedUrl(backend, key) ==
    IF backend = "s3" THEN Some(Url("presigned", 0, EmptyStr, None, key)) ELSE None

\* f"/api/v2/storage/db-content/{run_id}?path={path}&op_id={op_id}"
DbContentUrl(r, path) == Url("db-content", r, path, extract_operation_id(path), EmptyStr)

\* f"/api/storage/download-direct?path={run.storage_address}{path}"
DownloadDirectUrl(r, path) ==
    Url("download-direct", 0, EmptyStr, None, Concat(storage_address[r], path))

\* generate_presigned_url inside `try ... except Exception`: no URL when it raises
try_presigned_url(backend, key) ==
    IF BackendRaises(backend) THEN None ELSE PresignedUrl(backend, key)

\* a get_download_url that sends only UNKNOWN runs to the adapter's route
get_download_url_files_only(r, path) ==
    LET mode == from_string(storage_mode[r])
        full_path == Concat(storage_address[r], path)
    IN IF mode = "unknown"
       THEN IF is_operation_log_path(path) THEN DbContentUrl(r, path)
            ELSE IF try_presigned_url(get_backend("s3"), full_path) # None
                 THEN try_presigned_url(get_backend("s3"), full_path)[1]
            ELSE DownloadDirectUrl(r, path)
       ELSE IF mode = "s3" /\ try_presigned_url(get_backend(mode), full_path) # None
            THEN try_presigned_url(get_backend(mode), full_path)[1]
       ELSE DownloadDirectUrl(r, path)

\* HybridAccessLayer.get_download_url
get_download_url(r, path) ==
    LET mode == from_string(storage_mode[r])
        full_path == Concat(storage_address[r], path)
    IN IF mode = "unknown"
       THEN IF is_operation_log_path(path) THEN DbContentUrl(r, path)
            ELSE IF try_presigned_url(get_backend("s3"), full_path) # None
                 THEN try_presigned_url(get_backend("s3"), full_path)[1]
            ELSE DownloadDirectUrl(r, path)
       ELSE IF mode = "local" /\ is_operation_log_path(path) THEN DbContentUrl(r, path)
       ELSE IF mode = "s3" /\ try_presigned_url(get_backend(mode), full_path) # None
            THEN try_presigned_url(get_backend(mode), full_path)[1]
       ELSE DownloadDirectUrl(r, path)

\* the exception that leaves get_download_url: only the ValueError of _get_run
get_download_url_raises(r, path) == IF ~run_exists(r) THEN "ValueError" ELSE "none"

\* HybridAccessLayer._infer_storage_mode on a freshly built layer: a stored
\* value is mapped by from_string, nothing stored is inferred
infer_storage_mode(r) ==
    IF storage_mode[r] \notin {NULL, ""} THEN from_string(storage_mode[r])
    ELSE do_infer_storage_mode(r)

\* HybridAccessLayer.get_storage_info
get_storage_info(r) ==
    LET raw_mode == from_string(storage_mode[r])
        mode == IF raw_mode = "unknown" THEN infer_storage_mode(r) ELSE raw_mode
        has_s3_data == HasS3Files(r)
        has_local_data == HasDbLogs(r)
        common == [mode |-> mode, storage_address |-> AddressOrDefault(r),
                   is_hybrid |-> has_s3_data /\ has_local_data,
                   s3_path |-> IF has_s3_data THEN Some(AddressOrDefault(r)) ELSE None,
                   local_path |-> IF has_local_data THEN Some(r) ELSE None]
    IN IF mode = "unknown"
       THEN common @@
            [data_sources |-> [logs |-> "unknown", yaml |-> "unknown", data |-> "unknown"],
             warning |-> TRUE, inferred |-> FALSE]
       ELSE IF mode = "s3"
       THEN common @@
            [data_sources |-> [logs |-> IF has_local_data THEN "hybrid" ELSE "s3",
                               yaml |-> "s3", data |-> "s3"],
             warning |-> FALSE, inferred |-> raw_mode = "unknown"]
       ELSE common @@
            [data_sources |-> [logs |-> IF has_s3_data THEN "hybrid" ELSE "database",
                               yaml |-> "database_or_none", data |-> "database_or_none"],
             warning |-> FALSE, inferred |-> raw_mode = "unknown"]

\* the exception that leaves get_storage_info: ValueError of _get_run, or what
\* the has_local_data query raised (the object-store probes are guarded)
get_storage_info_raises(r) ==
    IF ~run_exists(r) THEN "ValueError"
    ELSE IF DbRaises THEN "Exception"
    ELSE "none"

\* the paths a client asks for
Paths ==
    {Path(<<"protocol.yaml">>, FALSE), Path(<<"processes", "data.csv">>, FALSE)}
    \cup {Path(<<"operations", Str(o), "log.txt">>, FALSE) : o \in Ops}

\* GET /api/v2/storage/content/{run_id}
LoadContent(r, path) ==
    /\ answer' = [op |-> "load_content", run |-> r, path |-> path,
                  content |-> load_content(r, path),
                  reads |-> load_content_reads(r, path),
                  raises |-> load_content_raises(r, path)]
    /\ UNCHANGED <<storage_mode, pc, req, first_infer, listing>>
    /\ Unchanged_ext

\* GET /api/v2/storage/download/{run_id}
GetDownloadUrl(r, path) ==
    /\ answer' = [op |-> "get_download_url", run |-> r, path |-> path,
                  url |-> IF get_download_url_raises(r, path) = "none"
                          THEN Some(get_download_url(r, path)) ELSE None,
                  raises |-> get_download_url_raises(r, path)]
    /\ UNCHANGED <<storage_mode, pc, req, first_infer, listing>>
    /\ Unchanged_ext

\* GET /api/v2/storage/info/{run_id}
GetStorageInfo(r) ==
    /\ answer' = [op |-> "get_storage_info", run |-> r,
                  info |-> IF get_storage_info_raises(r) = "none"
                           THEN Some(get_storage_info(r)) ELSE None,
                  raises |-> get_storage_info_raises(r)]
    /\ UNCHANGED <<storage_mode, pc, req, first_infer, listing>>
    /\ Unchanged_ext

\* the requests that only read
ReadOnly ==
    \/ \E r \in Runs, prefix \in Prefixes : ListContents(r, prefix)
    \/ \E r \in Runs, path \in Paths : LoadContent(r, path)
    \/ \E r \in Runs, path \in Paths : GetDownloadUrl(r, path)
    \/ \E r \in Runs : GetStorageInfo(r)

\* the answer of a reading request has left
Respond ==
    /\ answer # NoAnswer \/ listing # NoListing
    /\ answer' = NoAnswer
    /\ listing' = NoListing
    /\ UNCHANGED <<storage_mode, pc, req, first_infer>>
    /\ Unchanged_ext

NoneInFlight ==
    /\ answer = NoAnswer
    /\ listing = NoListing

\* every operation of the layer, one request at a time, the producing system
\* at work between the requests' steps
NextHal ==
    \/ NoneInFlight /\ \E s \in Serial : Request(s)
    \/ NoneInFlight /\ (\A s \in Serial : pc[s] = "idle") /\ ReadOnly
    \/ Respond
    \/ NoneInFlight /\ Producer

SpecHal == InitEmpty /\ [][NextHal]_vars

\* -------------------------------------------- reading while sources fail
\* a run id no row of the runs table carries
AbsentRun == MaxRun + 1

\* the keys the bucket and the local tree are drawn from here
FaultKeys == {OpLogKey(1, 1), DirectKey(1)}

\* run 1 with any stored mode, deleted or not; any logs; any of the keys in the
\* bucket and the local tree, some of them of zero bytes; any sources failing
InitFault ==
    /\ storage_mode \in [Runs -> {NULL, "s3", "local", "hybrid"}]
    /\ \A r \in Runs : r # 1 => storage_mode[r] = NULL
    /\ storage_address = [r \in Runs |-> RunsDir(r)]
    /\ run_id = [o \in Ops |-> OwnerOf(o)]
    /\ log \in [Ops -> LogValues]
    /\ s3 \in SUBSET FaultKeys
    /\ local_fs \in SUBSET FaultKeys
    /\ zero_size \in SUBSET ({<<"s3", k>> : k \in s3}
                             \cup {<<"local", k>> : k \in local_fs \cap {DirectKey(1)}})
    /\ deleted_at \in [Runs -> BOOLEAN]
    /\ \A r \in Runs : r # 1 => ~deleted_at[r]
    /\ down \in SUBSET Sources
    /\ max_keys = WholeBucket
    /\ backends = Registered
    /\ processes = {}
    /\ ports = {}
    /\ operations = {}
    /\ pc = [s \in Sessions |-> "idle"]
    /\ req = [s \in Sessions |-> IdleReq]
    /\ first_infer = [r \in Runs |-> NoCall]
    /\ listing = NoListing
    /\ answer = NoAnswer

\* the run ids a client asks about here
FaultRuns == {1, AbsentRun}

\* the paths a client asks for here: those of Paths, and a file of an
\* operation's directory that is not its log.txt
FaultPaths == Paths \cup {Path(<<"operations", "1", "error_log.txt">>, FALSE)}

\* one reading request per behaviour
NextFault ==
    /\ NoneInFlight
    /\ \/ \E r \in FaultRuns, prefix \in Prefixes : ListContents(r, prefix)
       \/ \E r \in FaultRuns, path \in FaultPaths : LoadContent(r, path)
       \/ \E r \in FaultRuns, path \in FaultPaths : GetDownloadUrl(r, path)
       \/ \E r \in FaultRuns : GetStorageInfo(r)

SpecFault == InitFault /\ [][NextFault]_vars

\* ------------------------------------------------ the adapter on its own
\* the prefixes the adapter is asked: those of the listings, a level below an
\* operation's directory, a directory outside operations/, an id of no operation
AdapterPrefixes ==
    Prefixes
    \cup {Path(<<"operations", "1", "sub">>, TRUE), Path(<<"processes">>, TRUE),
          Path(<<"operations", Str(MaxOp + 1)>>, TRUE)}

\* DBDataBackend(db).list_virtual_directories(run_id, prefix)
ListVirtualDirectories(r, prefix) ==
    /\ answer' = [op |-> "list_virtual_directories", run |-> r, prefix |-> prefix,
                  items |-> list_virtual_directories(r, prefix, NULL)]
    /\ UNCHANGED <<storage_mode, pc, req, first_infer, listing>>
    /\ Unchanged_ext

\* DBDataBackend(db).list_operation_logs(run_id, prefix)
ListOperationLogs(r, prefix) ==
    /\ answer' = [op |-> "list_operation_logs", run |-> r, prefix |-> prefix,
                  items |-> list_operation_logs(r, prefix, NULL)]
    /\ UNCHANGED <<storage_mode, pc, req, first_infer, listing>>
    /\ Unchanged_ext

\* any logs, the operations spread over the runs in any way
InitAdapter ==
    /\ storage_mode = [r \in Runs |-> NULL]
    /\ storage_address = [r \in Runs |-> RunsDir(r)]
    /\ run_id \in [Ops -> Runs]
    /\ log \in [Ops -> LogValues]
    /\ s3 = {}
    /\ local_fs = {}
    /\ zero_size = {}
    /\ deleted_at = [r \in Runs |-> FALSE]
    /\ down = {}
    /\ max_keys = WholeBucket
    /\ backends = Registered
    /\ processes = {}
    /\ ports = {}
    /\ operations = {}
    /\ pc = [s \in Sessions |-> "idle"]
    /\ req = [s \in Sessions |-> IdleReq]
    /\ first_infer = [r \in Runs |-> NoCall]
    /\ listing = NoListing
    /\ answer = NoAnswer

\* one call of the adapter per behaviour
NextAdapter ==
    /\ answer = NoAnswer
    /\ \/ \E r \in Runs, prefix \in AdapterPrefixes : ListVirtualDirectories(r, prefix)
       \/ \E r \in Runs, prefix \in AdapterPrefixes : ListOperationLogs(r, prefix)

SpecAdapter == InitAdapter /\ [][NextAdapter]_vars

\* ------------------------------------------- listings longer than a page
\* the largest page size tried
MaxPage == 3

\* the prefixes the backend is asked to list here
PagePrefixes == {EmptyStr, Path(<<"runs">>, TRUE), RunsDir(1)}

\* S3StorageBackend(config).list_objects(prefix)
ListObjects(prefix) ==
    /\ answer' = [op |-> "list_objects", prefix |-> prefix,
                  contents |-> S3ListObjects(prefix), common_prefixes |-> <<>>]
    /\ UNCHANGED <<storage_mode, pc, req, first_infer, listing>>
    /\ Unchanged_ext

\* S3StorageBackend(config).list_objects_with_dirs(prefix)
ListObjectsWithDirs(prefix) ==
    /\ answer' = [op |-> "list_objects_with_dirs", prefix |-> prefix,
                  contents |-> S3ListObjectsWithDirs(prefix).contents,
                  common_prefixes |-> S3ListObjectsWithDirs(prefix).common_prefixes]
    /\ UNCHANGED <<storage_mode, pc, req, first_infer, listing>>
    /\ Unchanged_ext

\* any bucket, and a page that may be shorter than the listing
InitPages ==
    /\ storage_mode = [r \in Runs |-> NULL]
    /\ storage_address = [r \in Runs |-> RunsDir(r)]
    /\ run_id = [o \in Ops |-> OwnerOf(o)]
    /\ log = [o \in Ops |-> NULL]
    /\ s3 \in SUBSET Range(KeyOrder)
    /\ local_fs = {}
    /\ zero_size = {}
    /\ deleted_at = [r \in Runs |-> FALSE]
    /\ down = {}
    /\ max_keys \in 1..MaxPage
    /\ backends = Registered
    /\ processes = {}
    /\ ports = {}
    /\ operations = {}
    /\ pc = [s \in Sessions |-> "idle"]
    /\ req = [s \in Sessions |-> IdleReq]
    /\ first_infer = [r \in Runs |-> NoCall]
    /\ listing = NoListing
    /\ answer = NoAnswer

\* one listing call per behaviour
NextPages ==
    /\ answer = NoAnswer
    /\ \/ \E prefix \in PagePrefixes : ListObjects(prefix)
       \/ \E prefix \in PagePrefixes : ListObjectsWithDirs(prefix)

SpecPages == InitPages /\ [][NextPages]_vars

\* ------------------------------------------------------- the registry
\* the names further backend classes are registered under
MoreBackends == {"gcs", "azure", "nfs"}

\* the names a backend is asked for
AskedNames == MoreBackends \cup {"s3", "local", "unknown", "S3"}

\* @BackendRegistry.register(mode) on a backend class
Register(mode) ==
    /\ backends' = backends \cup {lower(mode)}
    /\ UNCHANGED <<storage_mode, storage_address, run_id, log, s3, local_fs, zero_size,
                   deleted_at, down, max_keys, processes, ports, operations, pc, req,
                   first_infer, listing, answer>>

\* BackendRegistry.get(mode)
RegistryGet(mode) ==
    /\ answer' = [op |-> "registry_get", name |-> mode,
                  backend |-> registry_get(mode).backend,
                  raises |-> registry_get(mode).raises]
    /\ UNCHANGED <<storage_mode, pc, req, first_infer, listing>>
    /\ Unchanged_ext

\* HybridAccessLayer(db)._get_backend(mode_str) on a fresh layer
HalGetBackend(mode_str) ==
    /\ answer' = [op |-> "hal_get_backend", name |-> mode_str,
                  backend |-> IF get_backend_raises(mode_str) = "none"
                              THEN Some(get_backend(mode_str)) ELSE None,
                  raises |-> get_backend_raises(mode_str)]
    /\ UNCHANGED <<storage_mode, pc, req, first_infer, listing>>
    /\ Unchanged_ext

\* the registry after the import of the two backend modules
InitRegistry ==
    /\ storage_mode = [r \in Runs |-> NULL]
    /\ storage_address = [r \in Runs |-> RunsDir(r)]
    /\ run_id = [o \in Ops |-> OwnerOf(o)]
    /\ log = [o \in Ops |-> NULL]
    /\ s3 = {}
    /\ local_fs = {}
    /\ zero_size = {}
    /\ deleted_at = [r \in Runs |-> FALSE]
    /\ down = {}
    /\ max_keys = WholeBucket
    /\ backends = Registered
    /\ processes = {}
    /\ ports = {}
    /\ operations = {}
    /\ pc = [s \in Sessions |-> "idle"]
    /\ req = [s \in Sessions |-> IdleReq]
    /\ first_infer = [r \in Runs |-> NoCall]
    /\ listing = NoListing
    /\ answer = NoAnswer

\* further backends are registered; then one lookup
NextRegistry ==
    /\ answer = NoAnswer
    /\ \/ \E mode \in MoreBackends : Register(mode)
       \/ \E mode \in AskedNames : RegistryGet(mode)
       \/ \E mode \in AskedNames : HalGetBackend(mode)

SpecRegistry == InitRegistry /\ [][NextRegistry]_vars

\* ------------------------------------------- the local backend's paths
\* LocalConfig.base_path, as the names from the root of the file system
BasePath == <<"data", "storage">>

\* the names a path argument is made of
ArgNames == {"..", "runs", "etc"}

\* the longest path argument tried, in names
MaxArgLen == 2

\* the path arguments: relative or absolute ("/..."), with or without ".."
ArgPaths ==
    [abs : BOOLEAN, segs : UNION {[1..n -> ArgNames] : n \in 0..MaxArgLen}]

\* LocalStorageBackend._get_full_path: base_path / path; pathlib lets an
\* absolute right operand replace the left one and keeps ".." as it is
get_full_path(path) == IF path.abs THEN path.segs ELSE BasePath \o path.segs

\* the location the operating system reaches for a path from the root: ".."
\* steps to the parent, and the root is its own parent
RECURSIVE Resolve(_, _)
Resolve(done, rest) ==
    IF rest = <<>> THEN done
    ELSE IF rest[1] = ".."
         THEN Resolve(IF done = <<>> THEN <<>> ELSE SubSeq(done, 1, Len(done) - 1), Tail(rest))
    ELSE Resolve(Append(done, rest[1]), Tail(rest))

\* the operations of LocalStorageBackend that take a path
LocalOps ==
    {"load", "load_stream", "list_objects", "list_objects_with_dirs", "exists",
     "get_metadata", "save", "delete"}

\* LocalStorageBackend.<op>(path): each opens, lists, stats, writes or unlinks
\* what _get_full_path(path) names
LocalCall(op, path) ==
    /\ answer' = [op |-> op, path |-> path, touched |-> Resolve(<<>>, get_full_path(path))]
    /\ UNCHANGED <<storage_mode, pc, req, first_infer, listing>>
    /\ Unchanged_ext

InitLocal == InitRegistry

\* one call of the local backend per behaviour
NextLocal ==
    /\ answer = NoAnswer
    /\ \E op \in LocalOps, path \in ArgPaths : LocalCall(op, path)

SpecLocal == InitLocal /\ [][NextLocal]_vars

\* ------------------------------------------------------------ preview
\* the longest file content tried, in characters
MaxContentLen == 4

\* the largest max_lines tried (the route accepts 1..10000)
MaxLines == 3

\* the characters of a decoded text: two letters and the newline
Chars == {"a", "b", "nl"}

Contents == UNION {[1..n -> Chars] : n \in 0..MaxContentLen}

\* content.split('\n'): the pieces between the newlines, one more than there
\* are newlines
RECURSIVE split(_)
split(content) ==
    IF \A i \in 1..Len(content) : content[i] # "nl" THEN <<content>>
    ELSE LET i == CHOOSE i \in 1..Len(content) :
                      content[i] = "nl" /\ \A j \in 1..(i - 1) : content[j] # "nl"
         IN <<SubSeq(content, 1, i - 1)>> \o split(SubSeq(content, i + 1, Len(content)))

\* '\n'.join(lines)
RECURSIVE join(_)
join(lines) ==
    IF lines = <<>> THEN <<>>
    ELSE IF Len(lines) = 1 THEN lines[1]
    ELSE lines[1] \o <<"nl">> \o join(Tail(lines))

\* a limit that already truncates a content of exactly max_lines lines
preview_file_at_limit(content, max_lines) ==
    LET lines == split(content)
        truncated == Len(lines) >= max_lines
    IN [content |-> IF truncated THEN join(SubSeq(lines, 1, max_lines)) ELSE content,
        truncated |-> truncated]

\* preview_file, from the decoded content on: lines = content.split('\n');
\* truncated = len(lines) > max_lines; content = '\n'.join(lines[:max_lines])
preview_file(content, max_lines) ==
    LET lines == split(content)
        truncated == Len(lines) > max_lines
    IN [content |-> IF truncated THEN join(SubSeq(lines, 1, max_lines)) ELSE content,
        truncated |-> truncated]

\* GET /api/storage/preview on a text file of this content
Preview(content, max_lines) ==
    /\ answer' = [op |-> "preview_file", file |-> content, max_lines |-> max_lines,
                  content |-> preview_file(content, max_lines).content,
                  truncated |-> preview_file(content, max_lines).truncated]
    /\ UNCHANGED <<storage_mode, pc, req, first_infer, listing>>
    /\ Unchanged_ext

InitPreview == InitRegistry

\* one preview per behaviour
NextPreview ==
    /\ answer = NoAnswer
    /\ \E content \in Contents, max_lines \in 1..MaxLines : Preview(content, max_lines)

SpecPreview == InitPreview /\ [][NextPreview]_vars

\* ------------------------------------------------- processes and ports
MaxProcess == 2
MaxPort == 2

ProcessIds == 1..MaxProcess
PortIds == 1..MaxPort

\* the rows of the relational store that reference a process row
PortsOf(id) == {port \in ports : port[2] = id}
OperationsOf(id) == {operation \in operations : operation[2] = id}

\* processes.create: a Process row under a fresh primary key
ProcessCreate(id) ==
    /\ id \notin processes
    /\ processes' = processes \cup {id}
    /\ answer' = [op |-> "processes_create", id |-> id, status |-> 200, cascaded |-> 0]
    /\ UNCHANGED <<storage_mode, storage_address, run_id, log, s3, local_fs, zero_size,
                   deleted_at, down, max_keys, backends, ports, operations, pc, req,
                   first_infer, listing>>

\* create_ports_for_process: 404 without the Process row, else one Port row per
\* definition, each with process_id = the process
create_ports_for_process(process_id, ids) ==
    IF process_id \notin processes THEN ports ELSE ports \cup {<<id, process_id>> : id \in ids}

CreatePorts(process_id, ids) ==
    /\ ids # {}
    /\ \A id \in ids : \A port \in ports : port[1] # id
    /\ ports' = create_ports_for_process(process_id, ids)
    /\ answer' = [op |-> "create_ports", id |-> process_id,
                  status |-> IF process_id \in processes THEN 200 ELSE 404, cascaded |-> 0]
    /\ UNCHANGED <<storage_mode, storage_address, run_id, log, s3, local_fs, zero_size,
                   deleted_at, down, max_keys, backends, processes, operations, pc, req,
                   first_infer, listing>>

\* operations.create: 400 without the Process row
OperationCreate(id, process_id) ==
    /\ \A operation \in operations : operation[1] # id
    /\ operations' = IF process_id \in processes
                     THEN operations \cup {<<id, process_id>>} ELSE operations
    /\ answer' = [op |-> "operations_create", id |-> id,
                  status |-> IF process_id \in processes THEN 200 ELSE 400, cascaded |-> 0]
    /\ UNCHANGED <<storage_mode, storage_address, run_id, log, s3, local_fs, zero_size,
                   deleted_at, down, max_keys, backends, processes, ports, pc, req,
                   first_infer, listing>>

\* operations.delete
OperationDelete(id) ==
    /\ operations' = {operation \in operations : operation[1] # id}
    /\ answer' = [op |-> "operations_delete", id |-> id,
                  status |-> IF \E operation \in operations : operation[1] = id
                             THEN 200 ELSE 404,
                  cascaded |-> 0]
    /\ UNCHANGED <<storage_mode, storage_address, run_id, log, s3, local_fs, zero_size,
                   deleted_at, down, max_keys, backends, processes, ports, pc, req,
                   first_infer, listing>>

\* session.delete(process) with Process.ports cascade="all, delete-orphan": the
\* unit of work deletes the process's Port rows with the Process row
delete_orphan_keeping_ports(id) == ports

delete_orphan(id) == ports \ PortsOf(id)

\* Operation.process_id is a foreign key without ON DELETE and PRAGMA
\* foreign_keys=ON: the commit fails while an Operation row references the process
foreign_key_violation(id) == OperationsOf(id) # {}

\* processes.delete: 404 without the row; a failed commit leaves the tables alone
ProcessDelete(id) ==
    /\ IF id \in processes /\ ~foreign_key_violation(id)
       THEN /\ processes' = processes \ {id}
            /\ ports' = delete_orphan(id)
       ELSE UNCHANGED <<processes, ports>>
    /\ answer' = [op |-> "processes_delete", id |-> id,
                  status |-> IF id \notin processes THEN 404
                             ELSE IF foreign_key_violation(id) THEN 500 ELSE 200,
                  cascaded |-> IF id \in processes /\ ~foreign_key_violation(id)
                               THEN Cardinality(PortsOf(id)) ELSE 0]
    /\ UNCHANGED <<storage_mode, storage_address, run_id, log, s3, local_fs, zero_size,
                   deleted_at, down, max_keys, backends, operations, pc, req, first_infer,
                   listing>>

InitPorts == InitRegistry

NextPorts ==
    \/ \E id \in ProcessIds : ProcessCreate(id)
    \/ \E process_id \in ProcessIds, ids \in SUBSET PortIds : CreatePorts(process_id, ids)
    \/ \E id \in Ops, process_id \in ProcessIds : OperationCreate(id, process_id)
    \/ \E id \in Ops : OperationDelete(id)
    \/ \E id \in ProcessIds : ProcessDelete(id)

SpecPorts == InitPorts /\ [][NextPorts]_vars

\* ------------------------------------------------ browsing, then opening
\* as InitFault, every source answering and every stored file holding bytes
InitBrowse ==
    /\ InitFault
    /\ down = {}
    /\ zero_size = {}

\* the file items of the last listing
ListedFiles == {i \in 1..Len(listing.items) : listing.items[i].type = "file"}

\* a client lists a prefix of a run, then opens one of the files listed
NextBrowse ==
    /\ answer = NoAnswer
    /\ \/ /\ listing = NoListing
          /\ \E r \in FaultRuns, prefix \in Prefixes : ListContents(r, prefix)
       \/ \E i \in ListedFiles : LoadContent(listing.run, listing.items[i].path)

SpecBrowse == InitBrowse /\ [][NextBrowse]_vars

\* ------------------------------------- inference while the bucket is away
\* as Init, the object store answering or failing every call made to it
InitOutage ==
    /\ storage_mode = [r \in Runs |-> NULL]
    /\ storage_address = [r \in Runs |-> RunsDir(r)]
    /\ run_id = [o \in Ops |-> OwnerOf(o)]
    /\ log \in [Ops -> LogValues]
    /\ s3 \in SUBSET InferKeys
    /\ local_fs = {}
    /\ zero_size = {}
    /\ deleted_at = [r \in Runs |-> FALSE]
    /\ down \in SUBSET {"s3"}
    /\ max_keys = WholeBucket
    /\ backends = Registered
    /\ processes = {}
    /\ ports = {}
    /\ operations = {}
    /\ pc = [s \in Sessions |-> "idle"]
    /\ req = [s \in Sessions |-> IdleReq]
    /\ first_infer = [r \in Runs |-> NoCall]
    /\ listing = NoListing
    /\ answer = NoAnswer

SpecOutage == InitOutage /\ [][Next]_vars

\* ------------------------------------------------------------ properties
\* an infer call that has returned, on run r
InferDone(s, r) == pc[s] = "done" /\ req[s].kind = "infer" /\ req[s].run = r

\* r was uncached (storage_mode NULL) when request s loaded it
LoadedUncached(s, r) == r \in req[s].runs /\ req[s].snap[r] = NULL

\* what infer_storage_mode_for_run persists for r on the present external state
InferAlone(r) == inferred_mode(is_hybrid(r), do_infer_storage_mode(r))

\* what batch_infer_storage_modes persists for r on the present external state
BatchAlone(r) == batch_mode(r \in batch_check_s3_presence({r}), r \in batch_check_db_logs({r}))

\* C1: an infer call on a run whose storage_mode is non-null makes no object-store
\* call and no relational query, commits nothing and returns the persisted value.
C1_CacheStability ==
    \A s \in Sessions, r \in Runs :
        (InferDone(s, r) /\ req[s].snap[r] # NULL) =>
            /\ req[s].s3_calls = 0
            /\ req[s].db_queries = 0
            /\ req[s].commits = 0
            /\ req[s].ret = req[s].snap[r]
            /\ req[s].ret = storage_mode[r]

C1_Witness ==
    \E s \in Sessions, r \in Runs :
        InferDone(s, r) /\ req[s].snap[r] \in ModeStrings /\ req[s].ret = storage_mode[r]

\* C2: on a fixed external state, the value one batch call persists for each run
\* it found uncached is the value infer alone persists for that run.
C2_BatchEqualsSingle ==
    \A s \in Sessions, r \in Runs :
        (pc[s] = "done" /\ req[s].kind = "batch" /\ LoadedUncached(s, r)) =>
            storage_mode[r] = InferAlone(r)

\* C4: an infer call that computes "unknown" for an uncached run writes nothing,
\* and the next infer call on that run probes again, so that it returns a concrete
\* mode once data has appeared.
C4_UnknownNotPersisted ==
    \A s \in Sessions, r \in Runs :
        /\ (InferDone(s, r) /\ LoadedUncached(s, r) /\ req[s].ret = "unknown") =>
               (storage_mode[r] = NULL /\ req[s].commits = 0)
        /\ (InferDone(s, r) /\ first_infer[r].ret = "unknown") =>
               /\ req[s].s3_calls > 0
               /\ (HasS3Files(r) \/ HasDbLogs(r)) => req[s].ret \in {"s3", "local", "hybrid"}

\* C5: on a fixed external state, a second infer call on a run that was uncached
\* before the first returns what the first returned and leaves storage_mode as
\* the first left it.
C5_IdempotentPersistence ==
    \A s \in Sessions, r \in Runs :
        (InferDone(s, r) /\ first_infer[r] # NoCall) =>
            /\ req[s].ret = first_infer[r].ret
            /\ storage_mode[r] = first_infer[r].after

C5_Witness ==
    \E s \in Sessions, r \in Runs :
        /\ InferDone(s, r) /\ first_infer[r] # NoCall
        /\ req[s].ret = "hybrid" /\ storage_mode[r] = "hybrid"

\* C6: the persisted storage_mode of every run is one of s3, local, unknown, NULL.
C6_PersistedDomain == \A r \in Runs : storage_mode[r] \in {"s3", "local", "unknown", NULL}

\* the mode C7 states for r: any object under the prefix, else any log, else unknown
ClaimedMode(r) ==
    IF \E k \in s3 : StartsWith(k, AddressOrDefault(r)) THEN "s3"
    ELSE IF HasDbLogs(r) THEN "local"
    ELSE "unknown"

\* C7: for an uncached run infer yields s3 whenever an object exists under the
\* run's prefix, logs or not; else local when an operation of the run has a
\* non-empty log, and that value is persisted; else unknown.
C7_InferDecision ==
    \A s \in Sessions, r \in Runs :
        (InferDone(s, r) /\ LoadedUncached(s, r)) =>
            /\ req[s].ret = ClaimedMode(r)
            /\ req[s].ret = "local" => storage_mode[r] = "local"

\* the value the request s would persist for r were it the only one
AloneValue(s, r) == IF req[s].kind = "infer" THEN InferAlone(r) ELSE BatchAlone(r)

\* C8: when two first-access inferences of the same uncached run race, the value
\* persisted in the end is the value either would persist alone.
C8_RaceOutcome ==
    \A s \in Sessions, t \in Sessions, r \in Runs :
        (/\ s # t /\ pc[s] = "done" /\ pc[t] = "done"
         /\ LoadedUncached(s, r) /\ LoadedUncached(t, r)) =>
            storage_mode[r] = AloneValue(s, r)

\* what each source holds for the listed run and prefix, as list_contents sees it
ObjectStoreItems == ListedItems(listing.run, listing.prefix, "s3", "s3")

LocalFileItems == ListedItems(listing.run, listing.prefix, "local", "local")

VirtualDirItems(tag) == list_virtual_directories(listing.run, listing.prefix, tag)

LogFileItems(tag) == list_operation_logs(listing.run, listing.prefix, tag)

\* the merge order C9 states for each mode
MergeOrder ==
    IF listing.mode = "s3" THEN <<ObjectStoreItems>>
    ELSE IF listing.mode = "local" THEN <<VirtualDirItems(NULL), LogFileItems(NULL), LocalFileItems>>
    ELSE <<ObjectStoreItems, VirtualDirItems("local") \o LogFileItems("local"), LocalFileItems>>

Produces(i, path) == \E y \in Range(MergeOrder[i]) : y.path = path

\* C9: a listing holds no two items of the same path, every path a consulted
\* source produced is listed, and the item listed for it is the one of the first
\* source, in merge order, that produced it.
C9_Dedup ==
    listing.run # 0 =>
        /\ \A i \in 1..Len(listing.items), j \in 1..Len(listing.items) :
               i # j => listing.items[i].path # listing.items[j].path
        /\ \A i \in 1..Len(MergeOrder) : \A y \in Range(MergeOrder[i]) :
               \E x \in Range(listing.items) : x.path = y.path
        /\ \A x \in Range(listing.items) : \E i \in 1..Len(MergeOrder) :
               /\ x \in Range(MergeOrder[i])
               /\ \A j \in 1..(i - 1) : ~Produces(j, x.path)

\* a listing in UNKNOWN mode where the object store and the relational adapter
\* produced the same path
C9_Witness ==
    /\ listing.run # 0 /\ listing.mode = "unknown"
    /\ \E x \in Range(listing.items) :
           /\ x.backend = "s3"
           /\ \E y \in Range(VirtualDirItems("local") \o LogFileItems("local")) : y.path = x.path

\* the store holds what the item shows: the file, or a key below the directory
HeldBy(store, x) ==
    \E k \in store : StartsWith(k, Concat(storage_address[listing.run], x.path))

\* C10: with mode s3 every listed item is an object-store item; with mode local
\* the listing is the merge of the relational and the local-file items and holds
\* no object-store item; with mode unknown it merges all three sources.
C10_StrictByMode ==
    listing.run # 0 =>
        /\ listing.mode = "s3" =>
               /\ \A x \in Range(listing.items) :
                      x.source = "file" /\ x.backend = "s3" /\ HeldBy(s3, x)
               /\ \A y \in Range(ObjectStoreItems) : y \in Range(listing.items)
        /\ listing.mode = "local" =>
               /\ \A x \in Range(listing.items) :
                      /\ x.backend # "s3"
                      /\ \/ x \in Range(VirtualDirItems(NULL) \o LogFileItems(NULL))
                         \/ x.source = "file" /\ x.backend = "local" /\ HeldBy(local_fs, x)
               /\ \A y \in Range(VirtualDirItems(NULL) \o LogFileItems(NULL) \o LocalFileItems) :
                      \E x \in Range(listing.items) : x.path = y.path
        /\ listing.mode = "unknown" =>
               \A y \in Range(ObjectStoreItems \o VirtualDirItems("local")
                               \o LogFileItems("local") \o LocalFileItems) :
                   \E x \in Range(listing.items) : x.path = y.path

\* a non-empty listing in mode s3 of a run that has logs and local files
C10_Witness ==
    /\ listing.run # 0 /\ listing.mode = "s3" /\ listing.items # <<>>
    /\ VirtualDirItems(NULL) # <<>>
    /\ LocalFileItems # <<>>

\* C3: a step never changes a storage_mode that holds a concrete value, and the
\* commit of batch_infer_storage_modes changes no run it loaded with a
\* storage_mode other than null.
C3_Finality ==
    [][/\ \A r \in Runs :
             storage_mode[r] \notin {NULL, "unknown"} => storage_mode'[r] = storage_mode[r]
       /\ \A s \in Sessions :
             (req[s].kind = "batch" /\ pc[s] = "checked" /\ pc'[s] = "done") =>
                 \A r \in req[s].runs :
                     req[s].snap[r] # NULL => storage_mode'[r] = storage_mode[r]]_vars

\* a batch has committed for an uncached run while another of its runs kept a
\* concrete mode that the stores, as they are now, would no longer give it
C3_Witness ==
    \E s \in Sessions, r \in Runs :
        /\ pc[s] = "done" /\ req[s].kind = "batch" /\ req[s].commits = 1
        /\ r \in req[s].runs
        /\ req[s].snap[r] \notin {NULL, "unknown"}
        /\ storage_mode[r] = req[s].snap[r]
        /\ batch_mode(r \in batch_check_s3_presence({r}), HasDbLogs(r)) # storage_mode[r]

\* the run of the last listing exists and its stored mode reads as `mode`
ListedIn(mode) ==
    /\ listing.run # 0
    /\ run_exists(listing.run)
    /\ listing.mode = mode

\* what the sources that answered hold for the listed prefix, in the merge
\* order of the UNKNOWN branch
AnsweredOrder ==
    <<IF "s3" \in down THEN <<>> ELSE ObjectStoreItems,
      IF "db" \in down THEN <<>> ELSE VirtualDirItems("local") \o LogFileItems("local"),
      IF "local" \in down THEN <<>> ELSE LocalFileItems>>

\* C11: listing an existing run in UNKNOWN mode raises nothing, whichever sources
\* fail, and returns exactly the items of the sources that answered, without
\* duplicates, the first source in merge order winning a shared path.
C11_BestEffortListing ==
    ListedIn("unknown") =>
        /\ listing.raises = "none"
        /\ \A i \in 1..Len(listing.items), j \in 1..Len(listing.items) :
               i # j => listing.items[i].path # listing.items[j].path
        /\ \A i \in 1..3 : \A y \in Range(AnsweredOrder[i]) :
               \E x \in Range(listing.items) : x.path = y.path
        /\ \A x \in Range(listing.items) : \E i \in 1..3 :
               /\ x \in Range(AnsweredOrder[i])
               /\ \A j \in 1..(i - 1) : \A y \in Range(AnsweredOrder[j]) : y.path # x.path

\* the object store holds keys of the run but fails, the local tree fails too,
\* and the listing of "operations/" is the one sub-directory the adapter gives
C11_Witness ==
    /\ ListedIn("unknown")
    /\ {"s3", "local"} \subseteq down /\ "db" \notin down
    /\ ObjectStoreItems # <<>>
    /\ listing.prefix = Path(<<"operations">>, TRUE)
    /\ Len(listing.items) = 1
    /\ listing.items[1].source = "virtual"
    /\ listing.raises = "none"

\* the last answer is that of load_content on an existing run stored in `mode`
LoadedIn(mode) ==
    /\ answer.op = "load_content"
    /\ run_exists(answer.run)
    /\ from_string(storage_mode[answer.run]) = mode

\* C12: when the one backend of a resolved mode (the object store in s3 mode,
\* the local tree in local mode, there for a path that is no operation log)
\* fails during list_contents or load_content, the call ends in an exception,
\* not in an empty list or in None.
C12_DefinitiveFailurePropagates ==
    /\ ListedIn("s3") /\ BackendRaises("s3") => listing.raises # "none"
    /\ ListedIn("local") /\ BackendRaises("local") => listing.raises # "none"
    /\ LoadedIn("s3") /\ BackendRaises("s3") => answer.raises # "none"
    /\ LoadedIn("local") /\ ~is_operation_log_path(answer.path) /\ BackendRaises("local")
           => answer.raises # "none"

\* the path is operations/<id>/log.txt
MatchesLogPattern(path) ==
    /\ ~path.dir
    /\ Len(path.segs) = 3
    /\ path.segs[1] = "operations"
    /\ IsInt(path.segs[2])
    /\ path.segs[3] = "log.txt"

\* the source answers the read of the path of run r with bytes that are not empty
HoldsBytes(source, r, path) ==
    LET key == Concat(storage_address[r], path)
    IN /\ source \notin down
       /\ IF source = "db"
          THEN /\ ParseInt(path.segs[2]) \in Ops
               /\ log[ParseInt(path.segs[2])] \notin {NULL, ""}
          ELSE /\ key \in (IF source = "s3" THEN s3 ELSE local_fs)
               /\ <<source, key>> \notin zero_size

\* the order in which the claim has the sources tried for the path
TryOrder(path) ==
    IF MatchesLogPattern(path) THEN <<"db", "s3", "local">> ELSE <<"s3", "local">>

\* C13: load_content on an existing run in UNKNOWN mode raises nothing, reads
\* the adapter (operation-log paths only), the object store and the local tree
\* in that order, stops at the first source that gives non-empty bytes and
\* returns them, and returns None when every source is empty or fails.
C13_LoadPrecedence ==
    LoadedIn("unknown") =>
        LET order == TryOrder(answer.path)
            hits == {i \in 1..Len(order) : HoldsBytes(order[i], answer.run, answer.path)}
            first == CHOOSE i \in hits : \A j \in hits : i <= j
        IN /\ answer.raises = "none"
           /\ IF hits = {}
              THEN answer.content = None /\ answer.reads = order
              ELSE /\ answer.content # None
                   /\ ~answer.content[1].empty
                   /\ answer.content[1].source = order[first]
                   /\ answer.reads = SubSeq(order, 1, first)

\* the last answer is that of get_download_url on an existing run
ReferredIn(modes) ==
    /\ answer.op = "get_download_url"
    /\ run_exists(answer.run)
    /\ from_string(storage_mode[answer.run]) \in modes

\* the reference is the application route of the adapter for the run, the path
\* and the operation id the path carries
IsDbContentRoute(url, r, path) ==
    /\ url # None
    /\ url[1].route = "db-content"
    /\ url[1].run = r
    /\ url[1].path = path
    /\ url[1].op_id = Some(ParseInt(path.segs[2]))

\* C14 (as stated): in every mode, s3 included, get_download_url on
\* operations/<id>/log.txt of an existing run returns the db-content route and
\* never a presigned URL.
C14_LogRouteEveryMode ==
    ReferredIn({"s3", "local", "unknown"}) /\ MatchesLogPattern(answer.path)
        => IsDbContentRoute(answer.url, answer.run, answer.path)

\* C14 (amended): in local and UNKNOWN mode get_download_url on
\* operations/<id>/log.txt of an existing run returns the db-content route and
\* never a presigned URL, whatever the object store holds or does.
C14_LogRouteLocalUnknown ==
    ReferredIn({"local", "unknown"}) /\ MatchesLogPattern(answer.path)
        => /\ answer.raises = "none"
           /\ IsDbContentRoute(answer.url, answer.run, answer.path)

\* a local-mode run whose log file also lies in a reachable bucket: the
\* reference is the adapter's route
C14_Witness ==
    /\ ReferredIn({"local"})
    /\ MatchesLogPattern(answer.path)
    /\ Concat(storage_address[answer.run], answer.path) \in s3
    /\ "s3" \notin down
    /\ answer.url[1].route = "db-content"

\* C15: get_download_url on an existing run in UNKNOWN mode raises nothing and
\* returns a reference: the db-content route for operations/<id>/log.txt, for
\* any other path the presigned URL of the object when the object store gives
\* one, and the direct-download route of the object when it fails.
C15_UnknownReference ==
    ReferredIn({"unknown"}) =>
        LET key == Concat(storage_address[answer.run], answer.path)
        IN /\ answer.raises = "none"
           /\ answer.url # None
           /\ IF MatchesLogPattern(answer.path)
              THEN IsDbContentRoute(answer.url, answer.run, answer.path)
              ELSE /\ answer.url[1].route =
                          IF BackendRaises("s3") THEN "download-direct" ELSE "presigned"
                   /\ answer.url[1].key = key

\* the runs table has a row of this id that is not soft-deleted
Live(r) == r \in Runs /\ ~deleted_at[r]

\* nothing is stored for the path of run r: no file in the bucket or in the
\* local tree, and no log of the operation whose directory the path names
NoContentAt(r, path) ==
    LET key == Concat(storage_address[r], path)
    IN /\ key \notin s3 \cup local_fs
       /\ \/ ~(Len(path.segs) >= 2 /\ path.segs[1] = "operations" /\ IsInt(path.segs[2]))
          \/ ParseInt(path.segs[2]) \notin Ops
          \/ log[ParseInt(path.segs[2])] \in {NULL, ""}

\* C16 (as stated): load_content returns None and raises nothing both for a run
\* id that is unknown or soft-deleted and for a path without content, no source
\* failing; get_storage_info raises the not-found error for such a run id and
\* for no other.
C16_NotFoundAsNull ==
    /\ answer.op = "load_content" /\ ~Live(answer.run)
           => answer.raises = "none" /\ answer.content = None
    /\ answer.op = "load_content" /\ Live(answer.run) /\ down = {}
       /\ NoContentAt(answer.run, answer.path)
           => answer.raises = "none" /\ answer.content = None
    /\ answer.op = "get_storage_info"
           => (answer.raises = "ValueError" <=> ~Live(answer.run))

\* C16 (amended): load_content returns None and raises nothing for a path
\* without content of an existing run, no source failing; for a run id that is
\* unknown or soft-deleted it raises the not-found error, as get_storage_info
\* does, which raises it for such a run id and for no other.
C16_NotFoundSurfacing ==
    /\ answer.op = "load_content" /\ ~Live(answer.run)
           => answer.raises = "ValueError" /\ answer.content = None
    /\ answer.op = "load_content" /\ Live(answer.run) /\ down = {}
       /\ NoContentAt(answer.run, answer.path)
           => answer.raises = "none" /\ answer.content = None
    /\ answer.op = "get_storage_info"
           => (answer.raises = "ValueError" <=> ~Live(answer.run))

\* load_content on the soft-deleted run 1, whose file lies in the bucket
C16_Witness ==
    /\ answer.op = "load_content"
    /\ answer.run = 1
    /\ deleted_at[1]
    /\ Concat(storage_address[1], answer.path) \in s3
    /\ answer.raises = "ValueError"

\* the operations of run r whose log is neither NULL nor empty
LoggedOps(r) == {o \in Ops : run_id[o] = r /\ log[o] \notin {NULL, ""}}

\* C17: list_virtual_directories returns directories only: at "" the one entry
\* operations/ exactly when the run has an operation with a non-empty log; at
\* operations/ one entry operations/<id>/ for each such operation of the run
\* and no other; at every deeper prefix nothing.
C17_VirtualDirectories ==
    answer.op = "list_virtual_directories" =>
        LET items == answer.items
            ids == LoggedOps(answer.run)
        IN /\ \A x \in Range(items) : x.type = "directory"
           /\ answer.prefix = EmptyStr =>
                  IF ids # {}
                  THEN Len(items) = 1 /\ items[1].path = Path(<<"operations">>, TRUE)
                  ELSE items = <<>>
           /\ answer.prefix = Path(<<"operations">>, TRUE) =>
                  /\ Len(items) = Cardinality(ids)
                  /\ {x.path : x \in Range(items)}
                         = {Path(<<"operations", Str(o)>>, TRUE) : o \in ids}
           /\ Len(answer.prefix.segs) >= 2 => items = <<>>

\* at operations/ the run shows one sub-directory although another run's
\* operation has a log too
C17_Witness ==
    /\ answer.op = "list_virtual_directories"
    /\ answer.prefix = Path(<<"operations">>, TRUE)
    /\ Len(answer.items) = 1
    /\ \E o \in Ops : run_id[o] # answer.run /\ log[o] = "text"
    /\ \E o \in Ops : run_id[o] = answer.run

\* C18: list_operation_logs returns the one file entry operations/<id>/log.txt
\* when the prefix is operations/<id> or operations/<id>/ and operation <id>
\* belongs to the run and has a non-empty log, and the empty list in every
\* other case.
C18_OperationLogs ==
    answer.op = "list_operation_logs" =>
        LET prefix == answer.prefix
            leaf == /\ Len(prefix.segs) = 2
                    /\ prefix.segs[1] = "operations"
                    /\ IsInt(prefix.segs[2])
                    /\ ParseInt(prefix.segs[2]) \in LoggedOps(answer.run)
        IN IF leaf
           THEN /\ Len(answer.items) = 1
                /\ answer.items[1].type = "file"
                /\ answer.items[1].path = Path(prefix.segs \o <<"log.txt">>, FALSE)
           ELSE answer.items = <<>>

\* the prefix without the closing slash gives the log entry of the run's operation
C18_Witness ==
    /\ answer.op = "list_operation_logs"
    /\ ~answer.prefix.dir
    /\ Len(answer.items) = 1
    /\ answer.items[1].path.segs[3] = "log.txt"

\* C19: the data-source map get_storage_info returns has the three entries
\* logs, yaml and data in every mode, and its logs entry is "hybrid" exactly
\* when the returned is_hybrid flag is true.
C19_DataSources ==
    answer.op = "get_storage_info" /\ answer.info # None =>
        LET info == answer.info[1]
        IN /\ DOMAIN info.data_sources = {"logs", "yaml", "data"}
           /\ info.data_sources.logs = "hybrid" <=> info.is_hybrid

\* a batch call that has returned
BatchDone(s) == pc[s] = "done" /\ req[s].kind = "batch"

\* C20: a returned batch call has issued exactly one object-store listing, one
\* relational query and one commit when some input run was loaded with
\* storage_mode NULL, whatever the number of runs, and no listing, no query and
\* no commit when the input is empty or every input run was loaded with a mode.
C20_BatchCallBudget ==
    \A s \in Sessions : BatchDone(s) =>
        IF \E r \in req[s].runs : req[s].snap[r] = NULL
        THEN req[s].s3_calls = 1 /\ req[s].db_queries = 1 /\ req[s].commits = 1
        ELSE req[s].s3_calls = 0 /\ req[s].db_queries = 0 /\ req[s].commits = 0

\* a batch over two runs, one already stored as 'unknown' and one uncached,
\* has returned after one listing and one query
C20_Witness ==
    \E s \in Sessions :
        /\ BatchDone(s)
        /\ Cardinality(req[s].runs) = 2
        /\ \E r \in req[s].runs : req[s].snap[r] = "unknown"
        /\ \E r \in req[s].runs : req[s].snap[r] = NULL
        /\ req[s].s3_calls = 1 /\ req[s].db_queries = 1

C22_CompleteListings ==
    /\ answer.op = "list_objects" =>
           Range(answer.contents) = {k \in s3 : StartsWith(k, answer.prefix)}
    /\ answer.op = "list_objects_with_dirs" =>
           /\ answer.contents = ListObjectsV2(s3, answer.prefix).contents
           /\ answer.common_prefixes = ListObjectsV2(s3, answer.prefix).common_prefixes

\* C23: BackendRegistry.get raises its unknown-mode error for every name that
\* is not registered and returns the class of the asked name otherwise, never
\* another one; the layer's _get_backend, asked for a name that is not
\* registered, returns the S3 backend and raises nothing.
C23_RegistryAndFallback ==
    /\ answer.op = "registry_get" =>
           IF lower(answer.name) \in backends
           THEN answer.raises = "none" /\ answer.backend = Some(lower(answer.name))
           ELSE answer.raises = "ValueError" /\ answer.backend = None
    /\ answer.op = "hal_get_backend" /\ lower(answer.name) \notin backends =>
           answer.raises = "none" /\ answer.backend = Some("s3")

\* the layer is asked for "gcs" while only "nfs" was added to the registry
C23_Witness ==
    /\ answer.op = "hal_get_backend"
    /\ answer.name = "gcs"
    /\ backends = Registered \cup {"nfs"}
    /\ answer.backend = Some("s3")

\* C24: every operation of the local backend touches only a location at or
\* below base_path, whatever the path argument, ".." and absolute paths included.
C24_RootContainment ==
    answer.op \in LocalOps =>
        /\ Len(answer.touched) >= Len(BasePath)
        /\ SubSeq(answer.touched, 1, Len(BasePath)) = BasePath

\* the positions of the newlines of a text
Newlines(text) == {i \in 1..Len(text) : text[i] = "nl"}

\* C25: the preview is truncated exactly when the file has more than max_lines
\* lines, that is at least max_lines newlines; it then returns the text before
\* the max_lines-th newline, which has max_lines lines, and otherwise the whole
\* file.
C25_PreviewTruncation ==
    answer.op = "preview_file" =>
        LET nls == Newlines(answer.file)
        IN /\ answer.truncated <=> Cardinality(nls) + 1 > answer.max_lines
           /\ IF answer.truncated
              THEN \E cut \in nls :
                      /\ Cardinality({i \in nls : i < cut}) = answer.max_lines - 1
                      /\ answer.content = SubSeq(answer.file, 1, cut - 1)
                      /\ Cardinality(Newlines(answer.content)) + 1 = answer.max_lines
              ELSE answer.content = answer.file

\* a file of three lines, the last one empty, cut to its first two lines
C25_Witness ==
    /\ answer.op = "preview_file"
    /\ answer.file = <<"a", "nl", "b", "nl">>
    /\ answer.max_lines = 2
    /\ answer.truncated
    /\ answer.content = <<"a", "nl", "b">>

\* C26: every Port row references an existing Process row; a Process deleted
\* through the route leaves no Port row whose process_id is that process
C26_CascadeDelete ==
    /\ \A port \in ports : port[2] \in processes
    /\ answer.op = "processes_delete" /\ answer.status = 200 => PortsOf(answer.id) = {}

\* a process that had ports was deleted while another process keeps its port
C26_Witness ==
    /\ answer.op = "processes_delete" /\ answer.status = 200 /\ answer.cascaded > 0
    /\ ports # {}

\* C27: content read from the relational store for run R is the log of an
\* operation whose process belongs to run R
C27_CrossRunIsolation ==
    /\ answer.op = "load_content"
    /\ answer.content # None
    /\ answer.content[1].source = "db"
    => run_id[answer.content[1].op] = answer.run

\* where a listed item says its bytes are: the relational store, or the backend
ItemSource(item) == IF item.source = "db" THEN "db" ELSE item.backend

\* C28: a file opened from a listing is read from the source its listed item
\* reports
C28_ListLoadAgreement ==
    answer.op = "load_content" =>
        \A i \in ListedFiles :
            listing.items[i].path = answer.path =>
                /\ answer.content # None
                /\ answer.content[1].source = ItemSource(listing.items[i])

\* the same, for runs whose stored mode names one backend
C28_AgreementKnownMode ==
    answer.op = "load_content" /\ listing.mode # "unknown" =>
        \A i \in ListedFiles :
            listing.items[i].path = answer.path =>
                /\ answer.content # None
                /\ answer.content[1].source = ItemSource(listing.items[i])

\* C29: once a mode is persisted for a run and a source holds data of the run,
\* get_storage_info reports a mode other than UNKNOWN and gives no warning
C29_PersistedModeReported ==
    /\ answer.op = "get_storage_info"
    /\ answer.info # None
    /\ storage_mode[answer.run] # NULL
    /\ HasS3Files(answer.run) \/ HasDbLogs(answer.run)
    => /\ answer.info[1].mode # "unknown"
       /\ ~answer.info[1].warning

\* C30: infer and the batch write a mode that excludes the object store
\* ("local" or "unknown") for a run only after a probe of the object store that
\* succeeded; while the probe fails the run's storage_mode stays as it was
C30_FailedProbeFixesNothing ==
    [][\A r \in Runs :
          storage_mode'[r] # storage_mode[r] /\ storage_mode'[r] \in {"local", "unknown"}
          => ~BackendRaises("s3")]_vars

====
